---- MODULE Spec2Model ----
(***************************************************************************)
(* NASH: the reason/tool loop of main.py (a LangGraph StateGraph over      *)
(* AgentState), its callers and the estimator                              *)
(* BoltzmannSolver.run_simulation.                                         *)
(*                                                                         *)
(* The graph is invoked by main.py main (one run), by app.py main (one run *)
(* per question of a session, each starting from the session's transcript) *)
(* or directly, as build_graph() hands it out, without the recursion_limit *)
(* the two mains pass.                                                     *)
(*                                                                         *)
(* One step of the model is one node execution (a superstep of the graph): *)
(* the node's code and the routing on the edge that leaves it.             *)
(*                                                                         *)
(* Texts are modelled by their structure.  A decision text is a record     *)
(* that says what json.loads makes of it (shape), which keys the object    *)
(* carries, and whether the text contains the substring                    *)
(* "System Observation:" (quotes).  A history entry is a record with the   *)
(* fixed prefix the code writes (tag) and the text that follows it.        *)
(***************************************************************************)
EXTENDS Integers, Sequences, FiniteSets, TLC

VARIABLES
    entry,        \* who invoked the graph: "main", "app" or "invoke"
    api_key,      \* os.getenv("GROQ_API_KEY") is set
    pc,           \* node the graph runs next: "reason", "tool", "END", "raised", "idle"
    question,     \* state["question"]
    history,      \* state["history"]
    code,         \* state["code"], the pending decision text
    answer,       \* state["answer"]
    error_logs,   \* state["error_logs"]
    steps,        \* state["steps"]
    supersteps,   \* node executions of this invocation (what recursion_limit counts)
    fault,        \* the exception that left app.invoke, "none" if none
    history_log,  \* st.session_state.history_log (app.py)
    last,         \* the branch the last node execution took
    solver_calls, \* run_simulation calls made by tool_node in this run
    advisory_calls, \* chat.completions.create calls made in this run
    params,       \* SpecEstimator: the params dict handed to run_simulation
    result        \* SpecEstimator: what run_simulation returned

vars == <<entry, api_key, pc, question, history, code, answer, error_logs, steps,
          supersteps, fault, history_log, last, solver_calls, advisory_calls,
          params, result>>

----------------------------------------------------------------------------
(* Program constants *)

MAX_STEPS == 6

recursion_limit == 10

(* Bounds of the model *)

\* the front-end starts another run only while the carried history is this short
MaxCarry == 3

----------------------------------------------------------------------------
(* JSON values of the T and D keys *)

\* a JSON number n / d, d > 0 (0.5 is Ratio(1, 2))
Ratio(n, d) == [kind |-> "num", n |-> n, d |-> d]

Num(n) == Ratio(n, 1)

NonNumeric == [kind |-> "str", n |-> 0, d |-> 1]

Absent == [kind |-> "absent", n |-> 0, d |-> 1]

(* Decision texts *)

Payload(shape, action, text, T, D, props, quotes) ==
    [shape |-> shape, action |-> action, text |-> text, T |-> T, D |-> D,
     props |-> props, quotes |-> quotes]

\* the empty string (state["code"] = "")
EmptyText == Payload("empty", "<absent>", "<absent>", Absent, Absent, "<absent>", FALSE)

SimulateOk == Payload("object", "simulate", "<absent>", Num(300), Num(22), "Silicon", FALSE)

SimulateZeroT == Payload("object", "simulate", "<absent>", Num(0), Num(22), "Silicon", FALSE)

AnswerText == Payload("object", "answer", "VALIDATION SUCCESSFUL", Absent, Absent, "<absent>", FALSE)

\* {"action": "answer"}: no text key
AnswerNoText == Payload("object", "answer", "<absent>", Absent, Absent, "<absent>", FALSE)

\* an answer whose text cites the observation it audits
AnswerQuoting == Payload("object", "answer", "Per the System Observation: k matches", Absent, Absent, "<absent>", TRUE)

UnknownAction == Payload("object", "plot", "<absent>", Absent, Absent, "<absent>", FALSE)

NoAction == Payload("object", "<absent>", "<absent>", Absent, Absent, "<absent>", FALSE)

Prose == Payload("invalid", "<absent>", "<absent>", Absent, Absent, "<absent>", FALSE)

JsonArray == Payload("array", "<absent>", "<absent>", Absent, Absent, "<absent>", FALSE)

JsonNull == Payload("null", "<absent>", "<absent>", Absent, Absent, "<absent>", FALSE)

\* prose that mentions the observation tag
ProseQuoting == Payload("invalid", "<absent>", "<absent>", Absent, Absent, "<absent>", TRUE)

Decisions ==
    {SimulateOk, SimulateZeroT, AnswerText, AnswerQuoting, AnswerNoText,
     UnknownAction, NoAction, Prose, ProseQuoting, JsonArray, JsonNull}

(* Response texts of the advisory service: lines, a line is a fence or a body *)

Fence == [fence |-> TRUE, body |-> EmptyText]

Line(p) == [fence |-> FALSE, body |-> p]

Responses ==
    {<<Line(p)>> : p \in Decisions}
        \cup {<<Fence, Line(p), Fence>> : p \in {SimulateOk, AnswerText}}
        \cup {<<Fence, Line(AnswerText)>>, <<Fence, Line(AnswerText), Fence, Line(Prose)>>}

\* main.py:25-33: drop a leading and a trailing fence line, join what is left
strip_code_fences(text) ==
    LET l1 == IF text # <<>> /\ text[1].fence THEN Tail(text) ELSE text
        l2 == IF l1 # <<>> /\ l1[Len(l1)].fence THEN SubSeq(l1, 1, Len(l1) - 1) ELSE l1
    IN  IF l2 = <<>> THEN EmptyText
        ELSE IF Len(l2) = 1 /\ ~l2[1].fence THEN l2[1].body
        ELSE Prose

\* json.loads(text): "decode_error" (JSONDecodeError), "object" (a dict), or
\* "other" (a list, number, string or None, which has no .get)
json_loads(text) ==
    CASE text.shape \in {"invalid", "empty"} -> "decode_error"
      [] text.shape = "object" -> "object"
      [] OTHER -> "other"

----------------------------------------------------------------------------
(* The estimator, solver.py *)

\* solver.py:13-16: the coefficients the constructor fixes.  A is written in
\* units of 1e-47 (1.32e-45 as 132) and B in units of 1e-26 (1.73e-24 as 173).
self == [v_s |-> Num(8433), Theta_D |-> Num(645), A |-> Num(132), B |-> Num(173)]

\* solver.py:51: np.exp(x) is inf for a float64 x above 709.78, and the quotient
\* of line 51 is then inf / inf = nan (numpy warns, it does not raise)
ExpOverflow == 709

\* solver.py:58: the lower limit of the quadrature, 0.1
LowerLimit == Ratio(1, 10)

\* a / b as a number, b # 0
Quotient(a, b) ==
    IF b.n > 0 THEN Ratio(a.n * b.d, a.d * b.n) ELSE Ratio(0 - a.n * b.d, a.d * (0 - b.n))

Less(a, b) == a.n * b.d < b.n * a.d

\* solver.py:33-59: k_value, written as the term it is (what the quadrature
\* reads) and the class of float it comes out as.  With x_max above the overflow
\* threshold the integrand is nan at the upper nodes and so is the integral; with
\* T > 0, D > 0 and x_max >= 0.1 the integrand is finite and positive over an
\* interval taken left to right; the sign is left open everywhere else.
Callaway(T, D, c) ==
    LET x_max == Quotient(c.Theta_D, T)
    IN  [T |-> T, D |-> D, v_s |-> c.v_s, Theta_D |-> c.Theta_D, A |-> c.A, B |-> c.B,
         value |-> IF Less(Num(ExpOverflow), x_max) THEN "nan"
                   ELSE IF T.n > 0 /\ D.n > 0 /\ ~Less(x_max, LowerLimit)
                        THEN "finite, >= 0"
                   ELSE "unconstrained"]

\* solver.py:61-67: the success dict
SuccessResult(k, T, D) ==
    [status |-> "success", k_wmk |-> k, T_K |-> T, D_nm |-> D,
     note |-> "Calculated using Callaway BTE Model"]

\* solver.py:70: the error dict
ErrorResult(message) == [status |-> "error", message |-> message]

\* no call has returned yet
NoResult == [status |-> "<none>"]

\* params.get(key, default)
Get(v, default) == IF v.kind = "absent" THEN Num(default) ELSE v

\* solver.py:18-70.  float() raises on a non-numeric value, Theta_D / T raises
\* for T = 0 (line 55), v_s / D raises for D = 0 at the first evaluation of the
\* integrand (line 37); except Exception turns each into an error result.  The
\* coefficients are the constructor's (lines 13-16): material_props is not read.
run_simulation(p) ==
    LET tv == Get(p.T, 300)
        dv == Get(p.D, 100)
    IN  IF tv.kind # "num" THEN ErrorResult("could not convert to float")
        ELSE IF dv.kind # "num" THEN ErrorResult("could not convert to float")
        ELSE IF tv.n = 0 THEN ErrorResult("float division by zero")
        ELSE IF dv.n = 0 THEN ErrorResult("float division by zero")
        ELSE SuccessResult(Callaway(tv, dv, self), tv, dv)

Params(T, D, props) == [T |-> T, D |-> D, material_props |-> props]

----------------------------------------------------------------------------
(* History and error-log entries *)

Entry(tag, text, res) == [tag |-> tag, text |-> text, result |-> res]

Thought(text) == Entry("Theorist thought: ", text, NoResult)

Observation(res) == Entry("System Observation: ", EmptyText, res)

InvalidJsonEntry == Entry("Error: Theorist produced invalid JSON.", EmptyText, NoResult)

RefusalEntry ==
    Entry("Error: Simulation already performed; refusing to run again.", EmptyText, NoResult)

UnknownEntry == Entry("Error: Theorist returned an unknown action.", EmptyText, NoResult)

LogRecord(tag, text) == [tag |-> tag, text |-> text]

StepLimitAnswer == "Error: Max steps (6) reached without a final answer."

NoKeyAnswer == "Error: GROQ_API_KEY not found in .env."

RefusalAnswer == "Error: Simulation already performed; provide the audit instead."

UnknownAnswer == "Error: Theorist returned an unknown action."

\* main.py:36-39: "System Observation:" in entry, for some entry
has_observation(h) ==
    \E i \in 1..Len(h) :
        \/ h[i].tag = "System Observation: "
        \/ h[i].tag = "Theorist thought: " /\ h[i].text.quotes

\* main.py:165-172 without the test of the answer (lines 168-169)
should_continue_steps_only(a, s) ==
    IF s >= MAX_STEPS THEN "end" ELSE "continue"

\* main.py:165-172
should_continue(a, s) ==
    IF a # "" THEN "end"
    ELSE IF s >= MAX_STEPS THEN "end"
    ELSE "continue"

\* main.py:182: the conditional edge out of reason
after_reason(a, s) == IF should_continue(a, s) = "continue" THEN "tool" ELSE "END"

\* main.py:183 with the edge leading back into tool
after_tool_again == "tool"

\* main.py:183: the edge out of tool
after_tool == "reason"

\* main.py:205, app.py:178: the entry points pass recursion_limit; a direct
\* invocation of the compiled graph runs under the framework's default, which no
\* run of this graph reaches
Limited == entry \in {"main", "app"}

\* the framework's superstep accounting: the node just run was execution n of
\* this invocation.  Its writes are applied; then, with n at the limit, the
\* framework stops before it looks for the next node and app.invoke raises
\* GraphRecursionError.  (Every run of this graph has an odd number of node
\* executions, 2k + 1 for k TOOL steps, so execution 10 is always a TOOL step
\* with REASON still to come.)
Route(n, target) ==
    IF Limited /\ n >= recursion_limit THEN "raised" ELSE target

RouteFault(n) ==
    IF Limited /\ n >= recursion_limit THEN "GraphRecursionError" ELSE "none"

----------------------------------------------------------------------------
(* Entry points *)

\* main.py:197 fixes the question; app.py:155 takes what the user types
MainQuestion == "Calculate the thermal conductivity of a 22 nm Silicon nanowire at 300 K."

UserQuestion == "The paper reports 150 W/mK for a 100 nm wire. Is that right?"

FollowUp == "And at 400 K?"

FirstQuestion(e) == IF e = "main" THEN MainQuestion ELSE UserQuestion

\* the text never steers the loop: a session that has a transcript asks a follow-up
NextQuestion(log) == IF log = <<>> THEN UserQuestion ELSE FollowUp

DefaultParams == Params(Absent, Absent, "<absent>")

\* main.py:196-203 and app.py:168-175: the state the graph is invoked with
StartRun(q, h) ==
    /\ question' = q
    /\ history' = h
    /\ code' = EmptyText
    /\ answer' = ""
    /\ error_logs' = <<>>
    /\ steps' = 0
    /\ pc' = "reason"
    /\ supersteps' = 0
    /\ fault' = "none"
    /\ last' = "start"
    /\ solver_calls' = 0
    /\ advisory_calls' = 0

\* main.py:190-205 and app.py:151-178 return before the run when the key is
\* missing; a direct invocation of build_graph()'s graph has no such check
Init ==
    /\ entry \in {"main", "app", "invoke"}
    /\ api_key \in (IF entry = "invoke" THEN BOOLEAN ELSE {TRUE})
    /\ question = FirstQuestion(entry)
    /\ history = <<>>
    /\ code = EmptyText
    /\ answer = ""
    /\ error_logs = <<>>
    /\ steps = 0
    /\ pc = "reason"
    /\ supersteps = 0
    /\ fault = "none"
    /\ history_log = <<>>
    /\ last = "start"
    /\ solver_calls = 0
    /\ advisory_calls = 0
    /\ params = DefaultParams
    /\ result = NoResult

\* what every node execution does to the framework's bookkeeping
Ran(branch, target) ==
    /\ supersteps' = supersteps + 1
    /\ pc' = Route(supersteps + 1, target)
    /\ fault' = RouteFault(supersteps + 1)
    /\ last' = branch
    /\ UNCHANGED <<entry, api_key, history_log, params, result>>

\* a node execution that raises: its writes are dropped, app.invoke raises
Raised(branch, exc) ==
    /\ supersteps' = supersteps + 1
    /\ pc' = "raised"
    /\ fault' = exc
    /\ last' = branch
    /\ UNCHANGED <<entry, api_key, history_log, params, result>>
    /\ UNCHANGED <<question, history, code, answer, error_logs, steps, solver_calls>>

----------------------------------------------------------------------------
(* reason_node, main.py:42-105 *)

\* the increment of main.py:48 written as a jump
NextStepsTwice(s) == s + 2

\* main.py:48
NextSteps(s) == s + 1

\* main.py:45-46: the answer is already set
reason_passthrough ==
    /\ pc = "reason"
    /\ answer # ""
    /\ Ran("reason:passthrough", after_reason(answer, steps))
    /\ UNCHANGED <<question, history, code, answer, error_logs, steps,
                   solver_calls, advisory_calls>>

\* main.py:48-52 with the pending decision dropped
reason_step_limit_clears ==
    /\ pc = "reason"
    /\ answer = ""
    /\ NextSteps(steps) >= MAX_STEPS
    /\ steps' = NextSteps(steps)
    /\ answer' = StepLimitAnswer
    /\ code' = EmptyText
    /\ Ran("reason:step_limit", after_reason(answer', steps'))
    /\ UNCHANGED <<question, history, error_logs, solver_calls, advisory_calls>>

\* main.py:48-52
reason_step_limit ==
    /\ pc = "reason"
    /\ answer = ""
    /\ NextSteps(steps) >= MAX_STEPS
    /\ steps' = NextSteps(steps)
    /\ answer' = StepLimitAnswer
    /\ Ran("reason:step_limit", after_reason(answer', steps'))
    /\ UNCHANGED <<question, history, code, error_logs, solver_calls, advisory_calls>>

\* main.py:87-90 with the failure also recorded in error_logs
reason_no_key_logged ==
    /\ pc = "reason"
    /\ answer = ""
    /\ NextSteps(steps) < MAX_STEPS
    /\ ~api_key
    /\ steps' = NextSteps(steps)
    /\ answer' = NoKeyAnswer
    /\ error_logs' = Append(error_logs, LogRecord(NoKeyAnswer, EmptyText))
    /\ Ran("reason:no_key", after_reason(answer', steps'))
    /\ UNCHANGED <<question, history, code, solver_calls, advisory_calls>>

\* main.py:87-90
reason_no_key ==
    /\ pc = "reason"
    /\ answer = ""
    /\ NextSteps(steps) < MAX_STEPS
    /\ ~api_key
    /\ steps' = NextSteps(steps)
    /\ answer' = NoKeyAnswer
    /\ Ran("reason:no_key", after_reason(answer', steps'))
    /\ UNCHANGED <<question, history, code, error_logs, solver_calls, advisory_calls>>

\* main.py:92-105 with history rebuilt from the new thought alone
reason_decide_resets ==
    /\ pc = "reason"
    /\ answer = ""
    /\ NextSteps(steps) < MAX_STEPS
    /\ api_key
    /\ \E response \in Responses :
          /\ code' = strip_code_fences(response)
          /\ history' = <<Thought(strip_code_fences(response))>>
    /\ steps' = NextSteps(steps)
    /\ advisory_calls' = advisory_calls + 1
    /\ Ran("reason:decide", after_reason(answer, steps'))
    /\ UNCHANGED <<question, answer, error_logs, solver_calls>>

\* main.py:92-105: the service returns a text
reason_decide ==
    /\ pc = "reason"
    /\ answer = ""
    /\ NextSteps(steps) < MAX_STEPS
    /\ api_key
    /\ \E response \in Responses :
          /\ code' = strip_code_fences(response)
          /\ history' = Append(history, Thought(strip_code_fences(response)))
    /\ steps' = NextSteps(steps)
    /\ advisory_calls' = advisory_calls + 1
    /\ Ran("reason:decide", after_reason(answer, steps'))
    /\ UNCHANGED <<question, answer, error_logs, solver_calls>>

\* main.py:92-99: the call raises (service unreachable, timeout, rejected key), or
\* it returns no text and .strip() raises on None
reason_call_fails ==
    /\ pc = "reason"
    /\ answer = ""
    /\ NextSteps(steps) < MAX_STEPS
    /\ api_key
    /\ advisory_calls' = advisory_calls + 1
    /\ \E exc \in {"APIConnectionError", "AttributeError"} :
          Raised("reason:call_fails", exc)

reason_node ==
    \/ reason_passthrough
    \/ reason_step_limit
    \/ reason_no_key
    \/ reason_decide
    \/ reason_call_fails

----------------------------------------------------------------------------
(* tool_node, main.py:108-162 *)

\* main.py:150: data.get("text", "")
TextOf(data) == IF data.text = "<absent>" THEN "" ELSE data.text

\* the guard of main.py:126 left out
GuardedNever(h) == FALSE

\* main.py:126: the duplicate guard
Guarded(h) == has_observation(h)

\* main.py:113-122: json.loads raises JSONDecodeError
tool_malformed ==
    /\ pc = "tool"
    /\ json_loads(code) = "decode_error"
    /\ history' = Append(history, InvalidJsonEntry)
    /\ error_logs' = Append(error_logs, LogRecord("JSONDecodeError: ", code))
    /\ Ran("tool:malformed", after_tool)
    /\ UNCHANGED <<question, code, answer, steps, solver_calls, advisory_calls>>

\* main.py:124: the text is JSON but no dict; .get raises AttributeError, which
\* the except clause of line 115 does not catch
tool_not_object ==
    /\ pc = "tool"
    /\ json_loads(code) = "other"
    /\ Raised("tool:not_object", "AttributeError")
    /\ UNCHANGED advisory_calls

\* main.py:124-134
tool_duplicate ==
    /\ pc = "tool"
    /\ json_loads(code) = "object"
    /\ code.action = "simulate"
    /\ Guarded(history)
    /\ history' = Append(history, RefusalEntry)
    /\ error_logs' = Append(error_logs,
                            LogRecord("Simulation blocked after prior observation.", EmptyText))
    /\ answer' = RefusalAnswer
    /\ code' = EmptyText
    /\ Ran("tool:duplicate", after_tool)
    /\ UNCHANGED <<question, steps, solver_calls, advisory_calls>>

\* main.py:136-148
tool_simulate ==
    /\ pc = "tool"
    /\ json_loads(code) = "object"
    /\ code.action = "simulate"
    /\ ~Guarded(history)
    /\ LET request == Params(Get(code.T, 300), Get(code.D, 100), code.props)
       IN  history' = Append(history, Observation(run_simulation(request)))
    /\ solver_calls' = solver_calls + 1
    /\ answer' = ""
    /\ code' = EmptyText
    /\ Ran("tool:simulate", after_tool)
    /\ UNCHANGED <<question, error_logs, steps, advisory_calls>>

\* main.py:149-151
tool_answer ==
    /\ pc = "tool"
    /\ json_loads(code) = "object"
    /\ code.action = "answer"
    /\ answer' = TextOf(code)
    /\ code' = EmptyText
    /\ Ran("tool:answer", after_tool)
    /\ UNCHANGED <<question, history, error_logs, steps, solver_calls, advisory_calls>>

\* main.py:152-160 handled like the malformed payload: no answer is set
tool_unknown_retry ==
    /\ pc = "tool"
    /\ json_loads(code) = "object"
    /\ code.action \notin {"simulate", "answer"}
    /\ history' = Append(history, UnknownEntry)
    /\ error_logs' = Append(error_logs, LogRecord("Unknown action payload: ", code))
    /\ Ran("tool:unknown", after_tool)
    /\ UNCHANGED <<question, code, answer, steps, solver_calls, advisory_calls>>

\* main.py:152-160
tool_unknown ==
    /\ pc = "tool"
    /\ json_loads(code) = "object"
    /\ code.action \notin {"simulate", "answer"}
    /\ history' = Append(history, UnknownEntry)
    /\ error_logs' = Append(error_logs, LogRecord("Unknown action payload: ", code))
    /\ answer' = UnknownAnswer
    /\ code' = EmptyText
    /\ Ran("tool:unknown", after_tool)
    /\ UNCHANGED <<question, steps, solver_calls, advisory_calls>>

tool_node ==
    \/ tool_malformed
    \/ tool_not_object
    \/ tool_duplicate
    \/ tool_simulate
    \/ tool_answer
    \/ tool_unknown

----------------------------------------------------------------------------
(* The front-end around a run, app.py:155-193 *)

\* app.py:183-188: the run returned; keep its history for the session
app_finish ==
    /\ entry = "app"
    /\ pc = "END"
    /\ history_log' = history
    /\ pc' = "idle"
    /\ UNCHANGED <<entry, api_key, question, history, code, answer, error_logs, steps,
                   supersteps, fault, last, solver_calls, advisory_calls, params, result>>

\* app.py:179-181: app.invoke raised; show the error, keep the session as it was
app_error ==
    /\ entry = "app"
    /\ pc = "raised"
    /\ pc' = "idle"
    /\ UNCHANGED <<entry, api_key, question, history, code, answer, error_logs, steps,
                   supersteps, fault, history_log, last, solver_calls, advisory_calls,
                   params, result>>

\* app.py:155-178: the next question of the session
app_ask ==
    /\ entry = "app"
    /\ pc = "idle"
    /\ Len(history_log) <= MaxCarry
    /\ StartRun(NextQuestion(history_log), history_log)
    /\ UNCHANGED <<entry, api_key, history_log, params, result>>

Next ==
    \/ reason_passthrough
    \/ reason_step_limit
    \/ reason_no_key
    \/ reason_decide
    \/ reason_call_fails
    \/ tool_malformed
    \/ tool_not_object
    \/ tool_duplicate
    \/ tool_simulate
    \/ tool_answer
    \/ tool_unknown
    \/ app_finish
    \/ app_error
    \/ app_ask

Spec == Init /\ [][Next]_vars

----------------------------------------------------------------------------
(* The estimator on its own: run_simulation applied to one params dict *)

\* material_props dicts: the catalogue of app.py:102-124, the custom profile of
\* app.py:126-129 (no A, no B), and a profile with a coefficient that is no number.
\* A is written in units of 1e-47 and B in units of 1e-26, as in self.
Profile(name, v_s, Theta_D, A, B) ==
    [name |-> name, v_s |-> v_s, Theta_D |-> Theta_D, A |-> A, B |-> B]

Profiles ==
    {Profile("Silicon", Num(8433), Num(645), Num(132), Num(173)),
     Profile("Germanium", Num(5400), Num(374), Num(1000), Num(2000)),
     Profile("Custom Material", Num(5000), Num(400), Absent, Absent),
     Profile("Unobtainium", NonNumeric, Num(645), Num(132), Num(173))}

ProfileNames == {pr.name : pr \in Profiles}

ProfileOf(name) == CHOOSE pr \in Profiles : pr.name = name

\* every coefficient the profile supplies is a number
NumericProfile(pr) ==
    \A v \in {pr.v_s, pr.Theta_D, pr.A, pr.B} : v.kind \in {"num", "absent"}

Temperatures == {Absent, NonNumeric, Num(0 - 300), Num(0 - 1), Num(0), Ratio(1, 2), Num(1),
                 Num(300), Num(645), Num(1000)}

Diameters == {Absent, NonNumeric, Num(0 - 22), Num(0), Num(1), Num(22), Num(200)}

EstInit ==
    /\ entry = "manual"
    /\ api_key = FALSE
    /\ question = ""
    /\ history = <<>>
    /\ code = EmptyText
    /\ answer = ""
    /\ error_logs = <<>>
    /\ steps = 0
    /\ pc = "idle"
    /\ supersteps = 0
    /\ fault = "none"
    /\ history_log = <<>>
    /\ last = "start"
    /\ solver_calls = 0
    /\ advisory_calls = 0
    /\ params \in {Params(T, D, name) : T \in Temperatures, D \in Diameters,
                                        name \in ProfileNames}
    /\ result = NoResult

\* solver.run_simulation(params), as app.py:135-138 and main.py:136-142 call it
estimate ==
    /\ result = NoResult
    /\ result' = run_simulation(params)
    /\ UNCHANGED <<params, entry, api_key, pc, question, history, code, answer,
                   error_logs, steps, supersteps, fault, history_log, last,
                   solver_calls, advisory_calls>>

EstNext == estimate

SpecEstimator == EstInit /\ [][EstNext]_vars

----------------------------------------------------------------------------
(* Vocabulary of the claims *)

IsObservation(e) == e.tag = "System Observation: "

IsThought(e) == e.tag = "Theorist thought: "

\* the observation entries of a transcript
Observations(h) == SelectSeq(h, IsObservation)

\* the decision texts the advisory service returned, in order
Thoughts(h) == SelectSeq(h, IsThought)

IsSimulate(text) == json_loads(text) = "object" /\ text.action = "simulate"

IsAnswer(text) == json_loads(text) = "object" /\ text.action = "answer"

IsUnknown(text) ==
    json_loads(text) = "object" /\ text.action \notin {"simulate", "answer"}

IsMalformed(text) == json_loads(text) = "decode_error"

\* the run is one that main.py or app.py started
EntryPointRun == entry \in {"main", "app"}

----------------------------------------------------------------------------
(* C1: every run the entry points start reaches END with a non-empty answer
   within MAX_STEPS REASON passes, whatever the advisory decides: the graph is
   never stopped by its recursion limit, and at END the answer is set and
   steps <= MAX_STEPS. *)
C1_ReachesEndWithAnswer ==
    EntryPointRun =>
        /\ fault # "GraphRecursionError"
        /\ pc = "END" => (answer # "" /\ steps <= MAX_STEPS)

(* C2: no REASON or TOOL step lets a fault escape the run: app.invoke never
   raises because the advisory call failed or because the decision text was
   JSON that is no object. *)
C2_NoFaultEscapes ==
    fault \notin {"APIConnectionError", "AttributeError"}

(* C3: once history holds an observation entry, a TOOL step on a simulate
   decision does not call the estimator, appends the refusal entry to history
   and one record to error_logs, sets answer to the refusal message and ends
   the run: control goes to the pass-through REASON step and from there to END
   with no advisory call, and the history the run returns holds exactly one
   observation and its answer is the refusal. *)
C3_DuplicateRefused ==
    [][/\ (pc = "tool" /\ IsSimulate(code) /\ Observations(history) # <<>>) =>
            /\ solver_calls' = solver_calls
            /\ history' = Append(history, RefusalEntry)
            /\ Len(error_logs') = Len(error_logs) + 1
            /\ answer' = RefusalAnswer
            /\ pc' = "reason"
       /\ (pc = "reason" /\ last = "tool:duplicate" /\ Observations(history) # <<>>) =>
            /\ pc' = "END"
            /\ advisory_calls' = advisory_calls
            /\ answer' = RefusalAnswer
            /\ Len(Observations(history')) = 1]_vars

(* C4: in every run TOOL appends at most one observation entry to history and
   calls the estimator at most once, whatever the advisory returns.  history_log
   is the transcript the run started from (empty outside the front-end). *)
C4_AtMostOneObservation ==
    /\ solver_calls <= 1
    /\ Len(Observations(history)) - Len(Observations(history_log)) <= 1

\* the estimator has run once and a second simulate decision has been refused
C4_Witness ==
    /\ solver_calls = 1
    /\ last = "tool:duplicate"
    /\ Len(Observations(history)) = 1

(* C5: steps never decreases within a run, grows by exactly one on each REASON
   step that finds answer empty and returns, is unchanged by a REASON step that
   finds answer set and by every TOOL step, and never exceeds MAX_STEPS. *)
C5_StepCount ==
    [][/\ (pc = "reason" /\ answer = "" /\ pc' # "raised") => steps' = steps + 1
       /\ (pc = "reason" /\ answer # "") => steps' = steps
       /\ pc = "tool" => steps' = steps
       /\ pc \in {"reason", "tool"} => steps' >= steps
       /\ steps <= MAX_STEPS /\ steps' <= MAX_STEPS]_vars

\* the advisory kept asking for simulations and the count stands at the bound
C5_Witness ==
    /\ steps = MAX_STEPS
    /\ last = "reason:step_limit"
    /\ \E i \in 1..Len(history) : IsThought(history[i]) /\ IsSimulate(history[i].text)

(* C6: a TOOL step on a decision text that fails json.loads appends exactly one
   record to error_logs and the fixed error entry to history, leaves answer
   empty and does not end the run: control returns to REASON, and that REASON
   step asks the advisory service again as long as steps is below MAX_STEPS. *)
C6_MalformedRetries ==
    [][/\ (pc = "tool" /\ IsMalformed(code)) =>
            /\ Len(error_logs') = Len(error_logs) + 1
            /\ history' = Append(history, InvalidJsonEntry)
            /\ answer = "" /\ answer' = ""
            /\ pc' = "reason"
       /\ (pc = "reason" /\ last = "tool:malformed" /\ steps < MAX_STEPS) =>
            advisory_calls' = advisory_calls + 1]_vars

(* C7: a TOOL step on a decision that parses to an object whose action is
   neither simulate nor answer (or is missing) appends the unknown-action entry
   to history and one record to error_logs and sets answer to the
   unknown-action message; the run then ends without another advisory call:
   either the invocation stops right there at its recursion limit, or the next
   REASON step passes through to END and leaves the answer as it is. *)
C7_UnknownEndsRun ==
    [][/\ (pc = "tool" /\ IsUnknown(code)) =>
            /\ history' = Append(history, UnknownEntry)
            /\ Len(error_logs') = Len(error_logs) + 1
            /\ answer' = UnknownAnswer
            /\ solver_calls' = solver_calls
            /\ advisory_calls' = advisory_calls
            /\ \/ pc' = "reason"
               \/ pc' = "raised" /\ fault' = "GraphRecursionError"
       /\ (pc = "reason" /\ last = "tool:unknown") =>
            /\ pc' = "END"
            /\ advisory_calls' = advisory_calls
            /\ answer' = UnknownAnswer
            /\ history' = history]_vars

\* a run that ended at END on a decision without an action key
C7_Witness ==
    /\ pc = "END"
    /\ answer = UnknownAnswer
    /\ history # <<>>
    /\ history[Len(history)] = UnknownEntry
    /\ Len(history) >= 2
    /\ history[Len(history) - 1] = Thought(NoAction)

(* C8: a TOOL step on an answer decision sets answer to the decision's text
   (the empty string when the text is empty or absent) and clears code, and the
   run then goes to END with that answer and without another advisory call. *)
C8_AnswerEndsRun ==
    [][/\ (pc = "tool" /\ IsAnswer(code)) =>
            /\ answer' = TextOf(code)
            /\ code' = EmptyText
            /\ pc' = "reason"
       /\ (pc = "reason" /\ last = "tool:answer") =>
            /\ pc' = "END"
            /\ advisory_calls' = advisory_calls
            /\ answer' = answer]_vars

\* the run started from an empty transcript and the advisory has returned a
\* simulate decision and then an answer decision with a non-empty text
C9_Scenario ==
    /\ pc \in {"reason", "tool", "END"}
    /\ history_log = <<>>
    /\ Len(Thoughts(history)) = 2
    /\ IsSimulate(Thoughts(history)[1].text)
    /\ IsAnswer(Thoughts(history)[2].text)
    /\ Thoughts(history)[2].text.text \notin {"", "<absent>"}

(* C9: in a run started with empty history in which the advisory returns a
   simulate decision and then an answer decision with non-empty text, no
   exception is raised, history is exactly thought, observation, thought, the
   estimator was called once, error_logs is empty, steps is 2, and from the
   TOOL step on the answer decision to END the answer is that text. *)
C9_SimulateThenAnswer ==
    C9_Scenario =>
        /\ fault = "none"
        /\ Len(history) = 3
        /\ IsThought(history[1]) /\ IsObservation(history[2]) /\ IsThought(history[3])
        /\ solver_calls = 1
        /\ error_logs = <<>>
        /\ steps = 2
        /\ pc \in {"reason", "END"} => answer = history[3].text.text

\* the run of C9 has ended
C9_Witness ==
    /\ C9_Scenario
    /\ pc = "END"
    /\ history[2].result.status = "success"
    /\ answer = "VALIDATION SUCCESSFUL"

(* C12: with the credential of the advisory service missing, a REASON step
   that finds answer empty sets answer to the missing-key message, makes no
   advisory call, appends nothing to history or error_logs and sends the run to
   END; the run makes no advisory call at all and has no second node execution. *)
C12_MissingKeyEndsRun ==
    [][/\ (pc = "reason" /\ answer = "" /\ ~api_key) =>
            /\ answer' = NoKeyAnswer
            /\ advisory_calls' = advisory_calls
            /\ history' = history
            /\ error_logs' = error_logs
            /\ pc' = "END"
       /\ ~api_key => (advisory_calls' = 0 /\ supersteps' <= 1)]_vars

\* a run without the key has ended
C12_Witness ==
    /\ ~api_key
    /\ pc = "END"
    /\ last = "reason:no_key"
    /\ answer = NoKeyAnswer
    /\ history = <<>>
    /\ error_logs = <<>>

(* C14: control follows the transition rule: a REASON step is followed by END
   if answer is non-empty or steps >= MAX_STEPS and by TOOL otherwise; a TOOL
   step is followed by REASON, except that the duplicate guard and the
   unknown-action branch are followed by END directly, with no REASON step in
   between. *)
C14_TransitionRule ==
    [][/\ pc = "reason" =>
            pc' = IF answer' # "" \/ steps' >= MAX_STEPS THEN "END" ELSE "tool"
       /\ (pc = "tool" /\ last' \in {"tool:duplicate", "tool:unknown"}) => pc' = "END"
       /\ (pc = "tool" /\ last' \notin {"tool:duplicate", "tool:unknown"}) =>
            pc' = "reason"]_vars

(* C15: after every TOOL step code is the empty string, whichever branch the
   step took (simulate, duplicate guard, answer, malformed payload, unknown
   action). *)
C15_DecisionCleared ==
    [][(pc = "tool" /\ pc' # "raised") => code' = EmptyText]_vars

(* C16: a REASON step whose increment brings steps to MAX_STEPS sets answer to
   the step-limit message and changes nothing else: history, error_logs, code
   and question stay as they are and no advisory or estimator call is made. *)
C16_StepLimitFrame ==
    [][(pc = "reason" /\ answer = "" /\ steps + 1 >= MAX_STEPS) =>
            /\ steps' = MAX_STEPS
            /\ answer' = StepLimitAnswer
            /\ error_logs' = error_logs
            /\ history' = history
            /\ code' = code
            /\ question' = question
            /\ advisory_calls' = advisory_calls
            /\ solver_calls' = solver_calls
            /\ pc' = "END"]_vars

\* the step limit was hit right after a malformed decision, whose text is still
\* pending
C16_Witness ==
    /\ last = "reason:step_limit"
    /\ answer = StepLimitAnswer
    /\ code = Prose
    /\ history[Len(history)] = InvalidJsonEntry
    /\ error_logs # <<>>

\* main.py:137-141: the params dict tool_node builds from a simulate decision
RequestOf(text) == Params(Get(text.T, 300), Get(text.D, 100), text.props)

(* C17: when the estimator returns status error for a simulate decision, the
   TOOL step appends that result to history as an observation entry, adds
   nothing to error_logs, leaves answer empty and hands control back to REASON,
   and that REASON step asks the advisory service for the next move unless it
   hits the step limit. *)
C17_EstimatorErrorObserved ==
    [][/\ (/\ pc = "tool" /\ IsSimulate(code) /\ ~has_observation(history)
           /\ run_simulation(RequestOf(code)).status = "error") =>
            /\ history' = Append(history, Observation(run_simulation(RequestOf(code))))
            /\ history'[Len(history')].result.status = "error"
            /\ error_logs' = error_logs
            /\ answer' = ""
            /\ pc' = "reason"
       /\ (/\ pc = "reason" /\ last = "tool:simulate"
           /\ history[Len(history)].result.status = "error"
           /\ steps + 1 < MAX_STEPS) =>
            advisory_calls' = advisory_calls + 1]_vars

\* a is an initial segment of b
IsPrefix(a, b) == Len(a) <= Len(b) /\ SubSeq(b, 1, Len(a)) = a

(* C18: history and error_logs are append-only and question is fixed: across
   every REASON and every TOOL step the old history is a prefix of the new one,
   the old error_logs is a prefix of the new one and question is unchanged. *)
C18_AppendOnly ==
    [][(pc \in {"reason", "tool"}) =>
            /\ IsPrefix(history, history')
            /\ IsPrefix(error_logs, error_logs')
            /\ question' = question]_vars

\* a run in which both sequences grew more than once has ended
C18_Witness ==
    /\ pc = "END"
    /\ Len(history) >= Len(history_log) + 4
    /\ Len(error_logs) >= 2
    /\ question = FirstQuestion(entry)

(* C19: the duplicate guard refuses a simulate decision only if the estimator
   was called earlier in the same run: a TOOL step on a simulate decision in a
   run that has not called the estimator yet calls it and appends the
   observation, also when the run started from the session's carried-over
   history and when an earlier thought quotes the observation tag. *)
C19_FirstSimulateRuns ==
    [][(pc = "tool" /\ IsSimulate(code) /\ solver_calls = 0) =>
            /\ solver_calls' = 1
            /\ history' = Append(history, Observation(run_simulation(RequestOf(code))))
            /\ last' = "tool:simulate"]_vars

(* C20: every TOOL step processes the decision that the REASON step right
   before it recorded: whenever tool_node is about to run, the last node
   execution was a REASON step that got a text from the advisory service, code
   is that text, the last history entry is its thought, and the run has had one
   TOOL step for each earlier decision, so no decision is acted on twice. *)
C20_FreshDecision ==
    pc = "tool" =>
        /\ last = "reason:decide"
        /\ history # <<>>
        /\ history[Len(history)] = Thought(code)
        /\ supersteps = 2 * advisory_calls - 1

\* TOOL is about to run on a simulate decision right after a malformed one,
\* whose text the TOOL step before left in code
C20_Witness ==
    /\ pc = "tool"
    /\ IsSimulate(code)
    /\ Len(history) >= 3
    /\ history[Len(history) - 1] = InvalidJsonEntry
    /\ history[Len(history) - 2] = Thought(Prose)

----------------------------------------------------------------------------
(* Claims about the estimator, checked under SpecEstimator *)

\* the value, with the default of solver.py:27-28 for a missing key, is a number > 0
Positive(v, default) == Get(v, default).kind = "num" /\ Get(v, default).n > 0

(* C10: run_simulation never raises; it returns status error whenever T <= 0
   or D <= 0 or a supplied material coefficient is no number, and status
   success only when T > 0, D > 0 and every supplied coefficient is a number. *)
C10_RejectsBadInput ==
    result # NoResult =>
        /\ result.status \in {"success", "error"}
        /\ result.status = "success" <=>
              /\ Positive(params.T, 300)
              /\ Positive(params.D, 100)
              /\ NumericProfile(ProfileOf(params.material_props))

\* the keys of the success dict of solver.py:61-67
SuccessKeys == {"status", "k_wmk", "T_K", "D_nm", "note"}

(* C11: the estimate is a function of the material profile of the request: in
   a success record k is computed from the coefficients v_s, Theta_D, A and B
   that material_props supplies, and the record carries the profile's name. *)
C11_UsesMaterialProfile ==
    result.status = "success" =>
        LET pr == ProfileOf(params.material_props)
        IN  /\ \A c \in {"v_s", "Theta_D", "A", "B"} :
                  pr[c].kind = "num" => result.k_wmk[c] = pr[c]
            /\ \E key \in DOMAIN result \ SuccessKeys : result[key] = pr.name

\* the profile has its four coefficients and each is a number > 0
WellFormed(pr) ==
    \A v \in {pr.v_s, pr.Theta_D, pr.A, pr.B} : v.kind = "num" /\ v.n > 0

(* C13: for every T with 0 < T <= Theta_D of the request's profile, every
   D > 0 and every well-formed profile, run_simulation returns status success
   and the k of the record is a finite float >= 0. *)
C13_SuccessFiniteK ==
    LET pr == ProfileOf(params.material_props)
        T == Get(params.T, 300)
        D == Get(params.D, 100)
    IN  (/\ result # NoResult
         /\ WellFormed(pr)
         /\ T.kind = "num" /\ T.n > 0 /\ ~Less(pr.Theta_D, T)
         /\ D.kind = "num" /\ D.n > 0) =>
            /\ result.status = "success"
            /\ result.k_wmk.value = "finite, >= 0"

====
